---- MODULE Spec2Model ----
(***************************************************************************)
(* Model of volt's build engine: the full rebuild (cmd/rebuild.go,         *)
(* rebuildCmd.doRebuild and its helpers) and the link build                *)
(* (cmd/builder/symlink.go, symlinkBuilder.Build and installRepos).        *)
(*                                                                         *)
(* Specifications:                                                         *)
(*   SpecEncode  encodeReposPath applied to two bounded repository paths   *)
(*   SpecRC      one call of installRCFile on an arbitrary bounded file    *)
(*               system                                                    *)
(*   Spec        one of the two commands is run: doRebuild, up to          *)
(*               MaxBuilds times over one file system, or                  *)
(*               symlinkBuilder.Build with its installRepos workers        *)
(***************************************************************************)
EXTENDS Naturals, Sequences, FiniteSets

VARIABLES
    encIn, encOut,                      \* encodeReposPath: inputs <<p, q>>, outputs
    fs, fs0, rcCall,                    \* startup files; snapshot at entry; installRCFile call
    reposList,                          \* the active profile's repositories
    pc, retErr, build,                  \* doRebuild: position, returned error, invocation number
    lock,                               \* the transaction lock is held by this invocation
    startDir, oldDirs,                  \* live start directory, retired siblings on disk
    removeDone, removePc, removeErr,    \* background deletion: channel, goroutine, joined error
    copyDone, copyPc, spawnI, copyLog,  \* copy workers: channel, positions, loop index, receives
    copySent,                           \* results each copy worker has sent so far
    bpc, bErr, outerErr,                \* Build: position, returned error, the variable err
    done, installPc, bSpawnI, doneLog,  \* installRepos workers: channel, positions, receives
    doneSent, pack, helptagsCalls,      \* results sent; link destinations; helptags calls
    isBare,                             \* whether each repository's source is a bare repository
    buildInfoWritten                    \* build-info.json has been written

encVars     == <<encIn, encOut>>
rcVars      == <<fs, fs0, rcCall>>
rebuildVars == <<pc, retErr, build, lock, startDir, oldDirs, removeDone, removePc, removeErr,
                 copyDone, copyPc, spawnI, copyLog, copySent>>
linkVars    == <<bpc, bErr, outerErr, done, installPc, bSpawnI, doneLog, doneSent, pack,
                 helptagsCalls, isBare, buildInfoWritten>>
vars        == <<encVars, rcVars, reposList, rebuildVars, linkVars>>

----------------------------------------------------------------------------
(* Bounds *)

MaxPathLen == 3     \* longest repository path given to encodeReposPath in SpecEncode
MaxFileLen == 3     \* longest startup file content in SpecRC
MaxRepos   == 2     \* longest repository list
MaxBuilds  == 2     \* invocations of doRebuild over the same file system

Nil == "nil"        \* Go's nil error

Min(a, b) == IF a < b THEN a ELSE b

RECURSIVE SeqsUpTo(_, _)
SeqsUpTo(S, n) ==
    IF n = 0 THEN {<<>>}
    ELSE LET shorter == SeqsUpTo(S, n - 1)
         IN shorter \cup {Append(s, c) : s \in {t \in shorter : Len(t) = n - 1}, c \in S}

----------------------------------------------------------------------------
(* encodeReposPath: strings.NewReplacer("_", "__", "/", "_").Replace.      *)
(* Every old string is one byte, so the replacer rewrites the input byte   *)
(* by byte in one pass and never rescans its own output.                   *)

PathChar == {"/", "_", "a"}

ReplaceByte(c) ==
    IF c = "_" THEN <<"_", "_">>
    ELSE IF c = "/" THEN <<"_">>
    ELSE <<c>>

RECURSIVE encodeReposPath(_)
encodeReposPath(reposPath) ==
    IF reposPath = <<>> THEN <<>>
    ELSE ReplaceByte(Head(reposPath)) \o encodeReposPath(Tail(reposPath))

----------------------------------------------------------------------------
(* Startup files.  A file is a record: whether it exists and its bytes.    *)
(* magicComment stands for the 71-byte marker line: its first byte, the    *)
(* double quote, and its last, the line feed.                              *)

FileByte == {"\"", "\n", "x"}

magicComment == <<"\"", "\n">>

NoFile == [exists |-> FALSE, data |-> <<>>]
File(data) == [exists |-> TRUE, data |-> data]

Vimrc     == "vimrc"          \* filepath.Join(vimDir, "vimrc")
Gvimrc    == "gvimrc"         \* filepath.Join(vimDir, "gvimrc")
VimrcSrc  == "rc/vimrc.vim"   \* pathutil.RCFileOf(profile, "vimrc.vim")
GvimrcSrc == "rc/gvimrc.vim"  \* pathutil.RCFileOf(profile, "gvimrc.vim")
FileNames == {Vimrc, Gvimrc, VimrcSrc, GvimrcSrc}

Exists(files, name) == files[name].exists

\* What the environment does to the file operations of one installRCFile call.
IOFault == {"none", "remove", "open", "create", "write", "copy"}

\* Mutant: the byte-for-byte comparison loop is left out.
shouldHaveMagicComment_noCompare(file) ==
    IF ~file.exists THEN "open failed"
    ELSE IF Min(Len(file.data), Len(magicComment)) < Len(magicComment)
         THEN "does not have magic comment"
         ELSE Nil

shouldHaveMagicComment(file) ==
    IF ~file.exists THEN "open failed"
    ELSE LET n == Min(Len(file.data), Len(magicComment))
             read == SubSeq(file.data, 1, n)
         IN IF n = 0 \/ n < Len(magicComment) THEN "does not have magic comment"
            ELSE IF \E k \in 1..Len(magicComment) : magicComment[k] # read[k]
                 THEN "does not have magic comment"
                 ELSE Nil

\* Mutant: the marker line is not written before the copy.
copyFileWithMagicComment_noMagic(files, src, dst, io) ==
    IF io \in {"open", "create"} \/ ~files[src].exists
    THEN [fs |-> files, err |-> "open failed"]
    ELSE [fs |-> [files EXCEPT ![dst] = File(files[src].data)], err |-> Nil]

copyFileWithMagicComment(files, src, dst, io) ==
    IF io = "open" \/ ~files[src].exists THEN [fs |-> files, err |-> "open failed"]
    ELSE IF io = "create" THEN [fs |-> files, err |-> "create failed"]
    ELSE IF io = "write"
         THEN [fs |-> [files EXCEPT ![dst] = File(<<>>)], err |-> "write failed"]
    ELSE IF io = "copy"
         THEN [fs |-> [files EXCEPT ![dst] = File(magicComment)], err |-> "copy failed"]
    ELSE [fs |-> [files EXCEPT ![dst] = File(magicComment \o files[src].data)],
          err |-> Nil]

\* Mutant: the missing source is noticed before the destination is removed.
installRCFile_skipFirst(files, src, dst, io) ==
    IF Exists(files, dst) /\ shouldHaveMagicComment(files[dst]) # Nil
    THEN [fs |-> files, err |-> shouldHaveMagicComment(files[dst])]
    ELSE IF ~Exists(files, src) THEN [fs |-> files, err |-> Nil]
    ELSE LET removed == IF io = "remove" THEN files ELSE [files EXCEPT ![dst] = NoFile]
         IN IF Exists(removed, dst) THEN [fs |-> removed, err |-> "failed to remove"]
            ELSE copyFileWithMagicComment(removed, src, dst, io)

installRCFile(files, src, dst, io) ==
    IF Exists(files, dst) /\ shouldHaveMagicComment(files[dst]) # Nil
    THEN [fs |-> files, err |-> shouldHaveMagicComment(files[dst])]
    ELSE LET removed == IF io = "remove" THEN files ELSE [files EXCEPT ![dst] = NoFile]
         IN IF Exists(removed, dst) THEN [fs |-> removed, err |-> "failed to remove"]
            ELSE IF ~Exists(removed, src) THEN [fs |-> removed, err |-> Nil]
            ELSE copyFileWithMagicComment(removed, src, dst, io)

----------------------------------------------------------------------------
(* Repositories.  Path is a slash-separated identifier; files is the number *)
(* of files in the tree of a git repository's pinned commit.               *)

GitType    == "git"       \* lockjson.ReposGitType
StaticType == "static"    \* lockjson.ReposStaticType

RepoUniverse ==
    { [Type |-> GitType,    Path |-> <<"a", "_", "/", "a">>, files |-> 2],
      [Type |-> StaticType, Path |-> <<"a", "/", "_", "a">>, files |-> 0],
      [Type |-> "other",    Path |-> <<"a">>,                files |-> 0] }

\* Repository lists with pairwise distinct paths, as lock.json validation keeps them.
RepoLists ==
    {l \in SeqsUpTo(RepoUniverse, MaxRepos) :
        \A j, k \in 1..Len(l) : j # k => l[j].Path # l[k].Path}

N == Len(reposList)

Result(e, w) == [err |-> e, repos |-> w]     \* copyReposResult / actionReposResult

\* A goroutine's position: where it is, files visited, files written.
At(where) == [at |-> where, k |-> 0, wrote |-> 0]

NoDir == [exists |-> FALSE, gen |-> 0, entries |-> {}]
Dir(g, es) == [exists |-> TRUE, gen |-> g, entries |-> es]

NoChan == [made |-> FALSE, buf |-> <<>>]
Chan(b) == [made |-> TRUE, buf |-> b]

Snapshot == [fs |-> fs, startDir |-> startDir, oldDirs |-> oldDirs]

----------------------------------------------------------------------------
(* States of the variables a specification does not use. *)

EncIdle == encIn = <<>> /\ encOut = <<>>

RCIdle == rcCall = [pc |-> "none", io |-> "none", err |-> Nil]

RebuildIdle ==
    /\ pc = "none" /\ retErr = Nil /\ build = 0 /\ lock = FALSE
    /\ startDir = NoDir /\ oldDirs = {}
    /\ removeDone = NoChan /\ removePc = "none" /\ removeErr = Nil
    /\ copyDone = <<>> /\ copyPc = <<>> /\ spawnI = 0 /\ copyLog = <<>>
    /\ copySent = <<>>

LinkIdle ==
    /\ bpc = "none" /\ bErr = Nil /\ outerErr = Nil
    /\ done = <<>> /\ installPc = <<>> /\ bSpawnI = 0 /\ doneLog = <<>>
    /\ doneSent = <<>> /\ pack = {} /\ helptagsCalls = <<>> /\ isBare = <<>>
    /\ buildInfoWritten = FALSE

NoFiles == [f \in FileNames |-> NoFile]

----------------------------------------------------------------------------
(* SpecEncode: encodeReposPath applied to two paths. *)

EncodeInit ==
    /\ encIn \in SeqsUpTo(PathChar, MaxPathLen) \X SeqsUpTo(PathChar, MaxPathLen)
    /\ encOut = <<>>
    /\ fs = NoFiles /\ RCIdle
    /\ reposList = <<>>
    /\ RebuildIdle /\ LinkIdle
    /\ fs0 = Snapshot

Encode ==
    /\ encIn # <<>> /\ encOut = <<>>
    /\ encOut' = <<encodeReposPath(encIn[1]), encodeReposPath(encIn[2])>>
    /\ UNCHANGED <<encIn, rcVars, reposList, rebuildVars, linkVars>>

EncodeNext == Encode

SpecEncode == EncodeInit /\ [][EncodeNext]_vars

\* C4: encodeReposPath is collision-free: two distinct repository paths never
\* get the same destination name, and "a/b" maps to "a_b", "a_b" to "a__b".
C4_EncodeCollisionFree ==
    /\ encodeReposPath(<<"a", "/", "a">>) = <<"a", "_", "a">>
    /\ encodeReposPath(<<"a", "_", "a">>) = <<"a", "_", "_", "a">>
    /\ (encOut # <<>> /\ encIn[1] # encIn[2]) => encOut[1] # encOut[2]

----------------------------------------------------------------------------
(* SpecRC: one call installRCFile(profile, "vimrc.vim", vimDir/vimrc) on    *)
(* any destination and any profile source of bounded length.               *)

FileStates == {NoFile} \cup {File(d) : d \in SeqsUpTo(FileByte, MaxFileLen)}

RCInit ==
    /\ fs \in {[NoFiles EXCEPT ![Vimrc] = d, ![VimrcSrc] = s] :
                  d \in FileStates, s \in FileStates}
    /\ rcCall = [pc |-> "call", io |-> "none", err |-> Nil]
    /\ EncIdle
    /\ reposList = <<>>
    /\ RebuildIdle /\ LinkIdle
    /\ fs0 = Snapshot

CallInstallRCFile ==
    /\ rcCall.pc = "call"
    /\ \E io \in IOFault :
          LET r == installRCFile(fs, VimrcSrc, Vimrc, io)
          IN /\ fs' = r.fs
             /\ rcCall' = [pc |-> "returned", io |-> io, err |-> r.err]
    /\ UNCHANGED <<fs0, encVars, reposList, rebuildVars, linkVars>>

RCNext == CallInstallRCFile

SpecRC == RCInit /\ [][RCNext]_vars


\* "The file begins with the exact marker line", stated on the bytes.
StartsWithMarker(file) ==
    /\ file.exists
    /\ Len(file.data) >= Len(magicComment)
    /\ SubSeq(file.data, 1, Len(magicComment)) = magicComment

CopyFault == {"open", "create", "write", "copy"}

\* C6: installRCFile on an existing destination that does not start with the
\* marker line returns an error and leaves the destination unchanged.
C6_UnmarkedDestinationUntouched ==
    (/\ rcCall.pc = "returned"
     /\ fs0.fs[Vimrc].exists
     /\ ~StartsWithMarker(fs0.fs[Vimrc]))
    => (rcCall.err # Nil /\ fs[Vimrc] = fs0.fs[Vimrc])

C6_Witness ==
    /\ rcCall.pc = "returned"
    /\ fs0.fs[Vimrc].exists
    /\ Len(fs0.fs[Vimrc].data) > Len(magicComment)
    /\ ~StartsWithMarker(fs0.fs[Vimrc])
    /\ fs0.fs[VimrcSrc].exists
    /\ rcCall.err # Nil

\* C7: installRCFile with an absent destination and an existing source succeeds
\* (when no file operation fails) and whenever it returns nil the destination
\* is the marker line followed by the source bytes, which passes
\* shouldHaveMagicComment.
C7_InstallWritesMarkerThenSource ==
    (/\ rcCall.pc = "returned"
     /\ ~fs0.fs[Vimrc].exists
     /\ fs0.fs[VimrcSrc].exists)
    => /\ rcCall.io \notin CopyFault => rcCall.err = Nil
       /\ rcCall.err = Nil =>
             /\ fs[Vimrc] = File(magicComment \o fs0.fs[VimrcSrc].data)
             /\ StartsWithMarker(fs[Vimrc])
             /\ shouldHaveMagicComment(fs[Vimrc]) = Nil

C7_Witness ==
    /\ rcCall.pc = "returned"
    /\ ~fs0.fs[Vimrc].exists
    /\ fs0.fs[VimrcSrc].exists
    /\ Len(fs0.fs[VimrcSrc].data) = MaxFileLen
    /\ rcCall.err = Nil
    /\ Len(fs[Vimrc].data) = Len(magicComment) + MaxFileLen

\* C8: when the profile source does not exist, installRCFile returns no error
\* and the destination is absent afterwards, whether it was absent or present
\* with the marker before (the removal itself not failing).
C8_MissingSourceIsSilentNoOp ==
    (/\ rcCall.pc = "returned"
     /\ ~fs0.fs[VimrcSrc].exists
     /\ (~fs0.fs[Vimrc].exists \/ StartsWithMarker(fs0.fs[Vimrc])))
    => /\ (rcCall.io # "remove" \/ ~fs0.fs[Vimrc].exists) => rcCall.err = Nil
       /\ rcCall.err = Nil => ~fs[Vimrc].exists
       /\ fs[VimrcSrc] = fs0.fs[VimrcSrc]

C8_Witness ==
    /\ rcCall.pc = "returned"
    /\ ~fs0.fs[VimrcSrc].exists
    /\ StartsWithMarker(fs0.fs[Vimrc])
    /\ rcCall.err = Nil
    /\ ~fs[Vimrc].exists

----------------------------------------------------------------------------
(* rebuildCmd.doRebuild.  Each invocation is one process; the next         *)
(* invocation finds the file system the previous one left.                 *)

\* pathutil.LookUpVimrcOrGvimrc: the managed startup files that exist.
LookUpVimrcOrGvimrc(files) == {f \in {Vimrc, Gvimrc} : Exists(files, f)}

Managed == File(magicComment \o <<"x">>)     \* a startup file written by volt
UserFile == File(<<"x", "\n">>)              \* a startup file written by the user

EntryOf(w) == encodeReposPath(reposList[w].Path)   \* dst, relative to startDir

Stale == <<"s">>    \* an entry left in the start directory by an earlier build

\* The vimrc and gvimrc a rebuild finds: absent, volt's or the user's.
StartupFilesAtEntry ==
    {p \in {NoFile, Managed, UserFile} \X {NoFile, Managed, UserFile} : p[1] # p[2]}

FreshInvocation ==
    /\ pc' = "begin" /\ retErr' = Nil
    /\ removeDone' = NoChan /\ removePc' = "none" /\ removeErr' = Nil
    /\ copyDone' = <<>> /\ spawnI' = 1 /\ copyLog' = <<>>
    /\ copyPc' = [w \in 1..N |-> At("idle")]
    /\ copySent' = [w \in 1..N |-> <<>>]

RebuildInit ==
    /\ fs \in {[NoFiles EXCEPT ![Vimrc] = p[1], ![Gvimrc] = p[2],
                                 ![VimrcSrc] = File(<<"x">>)] : p \in StartupFilesAtEntry}
    /\ reposList \in RepoLists
    /\ startDir \in {NoDir, Dir(0, {Stale})}
    /\ oldDirs = {}
    /\ build = 1
    /\ pc = "begin" /\ retErr = Nil /\ lock = FALSE
    /\ removeDone = NoChan /\ removePc = "none" /\ removeErr = Nil
    /\ copyDone = <<>> /\ spawnI = 1 /\ copyLog = <<>>
    /\ copyPc = [w \in 1..N |-> At("idle")]
    /\ copySent = [w \in 1..N |-> <<>>]
    /\ fs0 = Snapshot
    /\ EncIdle /\ RCIdle /\ LinkIdle

Return(e) == pc' = "returned" /\ retErr' = e

\* Sending on copyDone, whose capacity is len(reposList).
SendCopyDone(w, e) ==
    /\ Len(copyDone) < N
    /\ copyDone' = Append(copyDone, Result(e, w))
    /\ copySent' = [copySent EXCEPT ![w] = Append(@, e)]

\* Rebuild, lines 28-33: transaction.Create takes the lock, or fails (the lock
\* is held by another process, or cannot be written) and Rebuild returns 10
\* without running doRebuild.
TransactionCreate ==
    /\ pc = "begin"
    /\ \E ok \in BOOLEAN :
          IF ok THEN lock' = TRUE /\ pc' = "start"
          ELSE lock' = lock /\ pc' = "exited"
    /\ UNCHANGED <<encVars, rcVars, reposList, retErr, build, startDir, oldDirs, removeDone,
                   removePc, removeErr, copyDone, copyPc, spawnI, copyLog, copySent, linkVars>>

\* Rebuild, lines 34-43: doRebuild has returned, the deferred
\* transaction.Remove releases the lock and Rebuild returns 11 or 0.
TransactionRemove ==
    /\ pc = "returned" /\ lock
    /\ lock' = FALSE
    /\ UNCHANGED <<encVars, rcVars, reposList, pc, retErr, build, startDir, oldDirs,
                   removeDone, removePc, removeErr, copyDone, copyPc, spawnI, copyLog,
                   copySent, linkVars>>

\* Mutant: the loop over the existing startup files is left out.
PreflightFails_none(files) == FALSE

\* Lines 62-68: some existing startup file does not have the magic comment.
PreflightFails(files) ==
    \E file \in LookUpVimrcOrGvimrc(files) : shouldHaveMagicComment(files[file]) # Nil

\* Lines 47-68: read lock.json, then check every existing startup file.
Preflight ==
    /\ pc = "start"
    /\ \E lockOk \in BOOLEAN :
          IF ~lockOk THEN Return("could not read lock.json")
          ELSE IF PreflightFails(fs)
               THEN Return("already exists user vimrc or gvimrc")
               ELSE pc' = "installVimrc" /\ UNCHANGED retErr
    /\ UNCHANGED <<encVars, lock, rcVars, reposList, build, startDir, oldDirs, removeDone, removePc,
                   removeErr, copyDone, copyPc, spawnI, copyLog, copySent, linkVars>>

\* Lines 74-77.
InstallVimrc ==
    /\ pc = "installVimrc"
    /\ \E io \in IOFault :
          LET r == installRCFile(fs, VimrcSrc, Vimrc, io)
          IN /\ fs' = r.fs
             /\ IF r.err # Nil THEN Return(r.err)
                ELSE pc' = "installGvimrc" /\ UNCHANGED retErr
    /\ UNCHANGED <<encVars, lock, fs0, rcCall, reposList, build, startDir, oldDirs, removeDone,
                   removePc, removeErr, copyDone, copyPc, spawnI, copyLog, copySent, linkVars>>

\* Lines 78-81.
InstallGvimrc ==
    /\ pc = "installGvimrc"
    /\ \E io \in IOFault :
          LET r == installRCFile(fs, GvimrcSrc, Gvimrc, io)
          IN /\ fs' = r.fs
             /\ IF r.err # Nil THEN Return(r.err)
                ELSE pc' = "removeStartDir" /\ UNCHANGED retErr
    /\ UNCHANGED <<encVars, lock, fs0, rcCall, reposList, build, startDir, oldDirs, removeDone,
                   removePc, removeErr, copyDone, copyPc, spawnI, copyLog, copySent, linkVars>>

\* Mutant: the deleting goroutine is started before the rename's error is looked at.
RemoveStartDir_deletesFirst ==
    /\ pc = "removeStartDir"
    /\ IF ~startDir.exists
       THEN pc' = "mkdir" /\ UNCHANGED <<retErr, startDir, oldDirs, removeDone, removePc>>
       ELSE \E renameOk \in BOOLEAN :
               /\ removeDone' = Chan(<<>>)
               /\ removePc' = "running"
               /\ IF ~renameOk
                  THEN Return("rename failed") /\ UNCHANGED <<startDir, oldDirs>>
                  ELSE /\ oldDirs' = oldDirs \cup {build}
                       /\ startDir' = NoDir
                       /\ pc' = "mkdir" /\ UNCHANGED retErr
    /\ UNCHANGED <<encVars, lock, rcVars, reposList, build, removeErr, copyDone, copyPc, spawnI,
                   copyLog, copySent, linkVars>>

\* Lines 85-91 and removeStartDir, lines 207-224: rename the live directory to
\* startDir + ".old" + a random suffix (one per invocation) and start the
\* goroutine that deletes it.
RemoveStartDir ==
    /\ pc = "removeStartDir"
    /\ IF ~startDir.exists
       THEN pc' = "mkdir" /\ UNCHANGED <<retErr, startDir, oldDirs, removeDone, removePc>>
       ELSE \E renameOk \in BOOLEAN :
               IF ~renameOk
               THEN Return("rename failed")
                    /\ UNCHANGED <<startDir, oldDirs, removeDone, removePc>>
               ELSE /\ oldDirs' = oldDirs \cup {build}
                    /\ startDir' = NoDir
                    /\ removeDone' = Chan(<<>>)
                    /\ removePc' = "running"
                    /\ pc' = "mkdir" /\ UNCHANGED retErr
    /\ UNCHANGED <<encVars, lock, rcVars, reposList, build, removeErr, copyDone, copyPc, spawnI,
                   copyLog, copySent, linkVars>>

\* Lines 92-100: os.MkdirAll(startDir) and make(chan copyReposResult, len(reposList)).
MkdirStartDir ==
    /\ pc = "mkdir"
    /\ \E ok \in BOOLEAN :
          IF ~ok THEN Return("mkdir failed") /\ UNCHANGED <<startDir, spawnI, copyDone>>
          ELSE /\ startDir' = IF startDir.exists THEN startDir ELSE Dir(build, {})
               /\ copyDone' = <<>> /\ spawnI' = 1
               /\ pc' = "spawn" /\ UNCHANGED retErr
    /\ UNCHANGED <<encVars, lock, rcVars, reposList, build, oldDirs, removeDone, removePc, removeErr,
                   copyPc, copyLog, copySent, linkVars>>

\* Lines 101-112: one iteration of the loop that starts the workers.
Spawn ==
    /\ pc = "spawn" /\ spawnI <= N
    /\ IF reposList[spawnI].Type = GitType
       THEN copyPc' = [copyPc EXCEPT ![spawnI] = At("open")]
            /\ UNCHANGED <<copyDone, copySent>>
       ELSE IF reposList[spawnI].Type = StaticType
       THEN copyPc' = [copyPc EXCEPT ![spawnI] = At("copy")]
            /\ UNCHANGED <<copyDone, copySent>>
       ELSE SendCopyDone(spawnI, "invalid repository type") /\ UNCHANGED copyPc
    /\ spawnI' = spawnI + 1
    /\ UNCHANGED <<encVars, lock, rcVars, reposList, pc, retErr, build, startDir, oldDirs,
                   removeDone, removePc, removeErr, copyLog, linkVars>>

\* Mutant: the wait for the deletion is left out before the wait for the copies.
WaitRemove_skip ==
    /\ pc = "spawn" /\ spawnI > N
    /\ pc' = "waitCopy"
    /\ UNCHANGED <<encVars, lock, rcVars, reposList, retErr, build, startDir, oldDirs, removePc,
                   removeErr, removeDone, copyDone, copyPc, spawnI, copyLog, copySent, linkVars>>

\* Lines 115-118: join the background deletion, when there is one.
WaitRemove ==
    /\ pc = "spawn" /\ spawnI > N
    /\ IF removeDone.made
       THEN /\ removeDone.buf # <<>>
            /\ removeErr' = Head(removeDone.buf)
            /\ removeDone' = Chan(Tail(removeDone.buf))
       ELSE UNCHANGED <<removeErr, removeDone>>
    /\ pc' = "waitCopy"
    /\ UNCHANGED <<encVars, lock, rcVars, reposList, retErr, build, startDir, oldDirs, removePc,
                   copyDone, copyPc, spawnI, copyLog, copySent, linkVars>>

\* Mutant: a result's error does not end the wait.
CopyResultFails_never(result) == FALSE

\* Line 123: the result just received ends the wait.
CopyResultFails(result) == result.err # Nil

\* Lines 121-126: one iteration of the loop that receives the results.
WaitCopy ==
    /\ pc = "waitCopy" /\ Len(copyLog) < N
    /\ copyDone # <<>>
    /\ LET result == Head(copyDone)
       IN /\ copyDone' = Tail(copyDone)
          /\ copyLog' = Append(copyLog, result)
          /\ IF CopyResultFails(result) THEN Return("failed to copy repository")
             ELSE UNCHANGED <<pc, retErr>>
    /\ UNCHANGED <<encVars, lock, rcVars, reposList, build, startDir, oldDirs, removeDone, removePc,
                   removeErr, copyPc, spawnI, copySent, linkVars>>

\* Mutant: the deletion's error is not looked at after the copies.
ShowRemoveError_dropped ==
    /\ pc = "waitCopy" /\ Len(copyLog) = N
    /\ Return(Nil)
    /\ UNCHANGED <<encVars, lock, rcVars, reposList, build, startDir, oldDirs, removeDone, removePc,
                   removeErr, copyDone, copyPc, spawnI, copyLog, copySent, linkVars>>

\* Lines 128-133.
ShowRemoveError ==
    /\ pc = "waitCopy" /\ Len(copyLog) = N
    /\ Return(IF removeErr # Nil THEN "failed to remove start dir" ELSE Nil)
    /\ UNCHANGED <<encVars, lock, rcVars, reposList, build, startDir, oldDirs, removeDone, removePc,
                   removeErr, copyDone, copyPc, spawnI, copyLog, copySent, linkVars>>

\* Mutant: the goroutine deletes startDir, the live name, instead of oldDir.
RemoveAllOld_liveDir ==
    /\ removePc = "running"
    /\ \E ok \in BOOLEAN :
          /\ startDir' = IF ok THEN NoDir ELSE startDir
          /\ removeDone' = Chan(Append(removeDone.buf, IF ok THEN Nil ELSE "remove failed"))
    /\ removePc' = "done"
    /\ UNCHANGED <<encVars, lock, rcVars, reposList, pc, retErr, build, oldDirs, removeErr,
                   copyDone, copyPc, spawnI, copyLog, copySent, linkVars>>

\* removeStartDir's goroutine, lines 219-222: os.RemoveAll(oldDir); done <- err.
RemoveAllOld ==
    /\ removePc = "running"
    /\ \E ok \in BOOLEAN :
          /\ oldDirs' = IF ok THEN oldDirs \ {build} ELSE oldDirs
          /\ removeDone' = Chan(Append(removeDone.buf, IF ok THEN Nil ELSE "remove failed"))
    /\ removePc' = "done"
    /\ UNCHANGED <<encVars, lock, rcVars, reposList, pc, retErr, build, startDir, removeErr,
                   copyDone, copyPc, spawnI, copyLog, copySent, linkVars>>

\* A write below startDir/dst lands in whatever directory has that name now.
WriteEntry(w) ==
    startDir' = IF startDir.exists
                THEN [startDir EXCEPT !.entries = @ \cup {EntryOf(w)}]
                ELSE startDir

\* copyGitRepos, lines 253-279: open the repository, its commit and its tree.
GitOpen(w) ==
    /\ copyPc[w].at = "open"
    /\ \E ok \in BOOLEAN :
          IF ok THEN copyPc' = [copyPc EXCEPT ![w].at = "walk"]
                     /\ UNCHANGED <<copyDone, copySent>>
          ELSE copyPc' = [copyPc EXCEPT ![w].at = "done"]
               /\ SendCopyDone(w, "failed to open repository")
    /\ UNCHANGED <<encVars, lock, rcVars, reposList, pc, retErr, build, startDir, oldDirs,
                   removeDone, removePc, removeErr, spawnI, copyLog, linkVars>>

\* What one callback of tree.Files().ForEach can do with a file: fail on its
\* mode or contents (the callback returns an error); write it; create the
\* directory but not the file, or neither (the errors of os.MkdirAll and
\* ioutil.WriteFile are dropped and the callback returns nil).
FileOutcome == {"error", "written", "dirOnly", "lost"}

\* copyGitRepos, lines 281-301: the callback on the next file of the tree.
GitWalk(w) ==
    /\ copyPc[w].at = "walk" /\ copyPc[w].k < reposList[w].files
    /\ \E o \in FileOutcome :
          /\ IF o = "error"
             THEN /\ copyPc' = [copyPc EXCEPT ![w].at = "done"]
                  /\ SendCopyDone(w, "failed to convert file mode")
             ELSE /\ copyPc' = [copyPc EXCEPT ![w].k = @ + 1,
                                              ![w].wrote = IF o = "written" THEN @ + 1 ELSE @]
                  /\ UNCHANGED <<copyDone, copySent>>
          /\ IF o \in {"written", "dirOnly"} THEN WriteEntry(w) ELSE UNCHANGED startDir
    /\ UNCHANGED <<encVars, lock, rcVars, reposList, pc, retErr, build, oldDirs, removeDone,
                   removePc, removeErr, spawnI, copyLog, linkVars>>

\* copyGitRepos, lines 303-305: every file was visited.
GitDone(w) ==
    /\ copyPc[w].at = "walk" /\ copyPc[w].k = reposList[w].files
    /\ copyPc' = [copyPc EXCEPT ![w].at = "done"]
    /\ SendCopyDone(w, Nil)
    /\ UNCHANGED <<encVars, lock, rcVars, reposList, pc, retErr, build, startDir, oldDirs,
                   removeDone, removePc, removeErr, spawnI, copyLog, linkVars>>

\* copyStaticRepos, lines 312-328: copyutil.CopyDir copies all, nothing or a part.
CopyStatic(w) ==
    /\ copyPc[w].at = "copy"
    /\ copyPc' = [copyPc EXCEPT ![w].at = "done"]
    /\ \E o \in {"copied", "failed", "partial"} :
          /\ IF o = "failed" THEN UNCHANGED startDir ELSE WriteEntry(w)
          /\ SendCopyDone(w, IF o = "copied" THEN Nil ELSE "failed to copy static directory")
    /\ UNCHANGED <<encVars, lock, rcVars, reposList, pc, retErr, build, oldDirs, removeDone,
                   removePc, removeErr, spawnI, copyLog, linkVars>>

\* The command is run again: a new process, whose goroutines start afresh
\* (those of the process that returned ended with it).
RunAgain ==
    /\ (pc = "returned" /\ ~lock) \/ pc = "exited"
    /\ build < MaxBuilds
    /\ build' = build + 1
    /\ FreshInvocation
    /\ fs0' = Snapshot
    /\ UNCHANGED <<encVars, lock, fs, rcCall, reposList, startDir, oldDirs, linkVars>>

RebuildNext ==
    \/ TransactionCreate \/ TransactionRemove
    \/ Preflight \/ InstallVimrc \/ InstallGvimrc
    \/ RemoveStartDir \/ MkdirStartDir \/ Spawn \/ WaitRemove \/ WaitCopy \/ ShowRemoveError
    \/ RemoveAllOld
    \/ \E w \in DOMAIN copyPc : GitOpen(w)
    \/ \E w \in DOMAIN copyPc : GitWalk(w)
    \/ \E w \in DOMAIN copyPc : GitDone(w)
    \/ \E w \in DOMAIN copyPc : CopyStatic(w)
    \/ RunAgain

----------------------------------------------------------------------------
(* symlinkBuilder.Build and its workers, installRepos. *)

LinkInit ==
    /\ reposList \in RepoLists
    /\ bpc = "start" /\ bErr = Nil /\ outerErr = Nil
    /\ done = <<>> /\ bSpawnI = 1 /\ doneLog = <<>>
    /\ installPc = [w \in 1..N |-> At("idle")]
    /\ doneSent = [w \in 1..N |-> <<>>]
    /\ pack = {} /\ helptagsCalls = [w \in 1..N |-> 0]
    /\ isBare \in {b \in [1..N -> BOOLEAN] : \A w \in 1..N : b[w] => reposList[w].Type = GitType}
    /\ buildInfoWritten = FALSE
    /\ fs = NoFiles
    /\ EncIdle /\ RCIdle /\ RebuildIdle
    /\ fs0 = Snapshot

BReturn(e) == bpc' = "returned" /\ bErr' = e

\* Sending on done, whose capacity is len(reposList).
SendDone(w, e) ==
    /\ Len(done) < N
    /\ done' = Append(done, Result(e, w))
    /\ doneSent' = [doneSent EXCEPT ![w] = Append(@, e)]

\* Lines 28-67: the editor is found, lock.json read, the startup files
\* installed and the opt directory made, or Build returns that step's error.
\* Past line 64 the variable err is nil.
BuildPrepare ==
    /\ bpc = "start"
    /\ \E ok \in BOOLEAN :
          IF ok THEN bpc' = "spawn" /\ outerErr' = Nil /\ UNCHANGED bErr
          ELSE BReturn("build precondition failed") /\ outerErr' = "build precondition failed"
    /\ UNCHANGED <<encVars, rcVars, reposList, rebuildVars, isBare, done, installPc, bSpawnI, doneLog,
                   doneSent, pack, helptagsCalls, buildInfoWritten>>

\* Lines 68-76: one iteration of the loop that starts the workers.
BuildSpawn ==
    /\ bpc = "spawn" /\ bSpawnI <= N
    /\ installPc' = [installPc EXCEPT ![bSpawnI] = At("start")]
    /\ bSpawnI' = bSpawnI + 1
    /\ UNCHANGED <<encVars, rcVars, reposList, rebuildVars, isBare, bpc, bErr, outerErr, done, doneLog,
                   doneSent, pack, helptagsCalls, buildInfoWritten>>

\* Mutant: a result's error does not end the loop.
BuildResultFails_never(result) == FALSE

\* Line 79: the result just received ends the loop.
BuildResultFails(result) == result.err # Nil

\* Line 80: "return err" returns the function's variable err, not result.err.
BuildLoopError(result) == outerErr

\* Lines 77-85: one iteration of the loop that receives the results.
BuildWait ==
    /\ bpc = "spawn" /\ bSpawnI > N /\ Len(doneLog) < N
    /\ done # <<>>
    /\ LET result == Head(done)
       IN /\ done' = Tail(done)
          /\ doneLog' = Append(doneLog, result)
          /\ IF BuildResultFails(result) THEN BReturn(BuildLoopError(result))
             ELSE UNCHANGED <<bpc, bErr>>
    /\ UNCHANGED <<encVars, rcVars, reposList, rebuildVars, isBare, outerErr, installPc, bSpawnI,
                   doneSent, pack, helptagsCalls, buildInfoWritten>>

\* Lines 87-97: generate and write the bundled plugconf.
BuildPlugconf ==
    /\ bpc = "spawn" /\ bSpawnI > N /\ Len(doneLog) = N
    /\ \E ok \in BOOLEAN :
          IF ok THEN bpc' = "writeBuildInfo" /\ UNCHANGED <<bErr, outerErr>>
          ELSE BReturn("plugconf failed") /\ UNCHANGED outerErr
    /\ UNCHANGED <<encVars, rcVars, reposList, rebuildVars, isBare, done, installPc, bSpawnI, doneLog,
                   doneSent, pack, helptagsCalls, buildInfoWritten>>

\* Line 100: return buildInfo.Write().
BuildWriteInfo ==
    /\ bpc = "writeBuildInfo"
    /\ \E ok \in BOOLEAN :
          /\ buildInfoWritten' = ok
          /\ BReturn(IF ok THEN Nil ELSE "failed to write build-info")
    /\ UNCHANGED <<encVars, rcVars, reposList, rebuildVars, isBare, outerErr, done, installPc, bSpawnI,
                   doneLog, doneSent, pack, helptagsCalls>>

\* Whether a goroutine is waiting to receive from the updateDone channel that
\* goroutine w made at line 126.  The channel never leaves installRepos and
\* updateBareGitRepos, so its only receive is line 128 of goroutine w.
UpdateDoneReceiverWaiting(w) == installPc[w].at = "recvUpdateDone"

\* (&copyBuilder{}).updateBareGitRepos(..., updateDone): extracts the pinned
\* commit into dst and sends its one result on the channel it is given.  The
\* channel is unbuffered: the send returns only when a receiver is waiting.
updateBareGitRepos(w, e) ==
    [returns |-> UpdateDoneReceiverWaiting(w), result |-> Result(e, w)]

\* Mutant: cfg.Core.IsBare is not looked at and every repository is linked.
InstallStart_neverBare(w) ==
    /\ installPc[w].at = "start"
    /\ IF reposList[w].Type = GitType
       THEN \E o \in {"openFailed", "configFailed", "opened"} :
               IF o = "openFailed" \/ o = "configFailed"
               THEN /\ installPc' = [installPc EXCEPT ![w].at = "done"]
                    /\ SendDone(w, o)
               ELSE /\ installPc' = [installPc EXCEPT ![w].at = "symlink"]
                    /\ UNCHANGED <<done, doneSent>>
       ELSE /\ installPc' = [installPc EXCEPT ![w].at = "symlink"]
            /\ UNCHANGED <<done, doneSent>>
    /\ UNCHANGED <<encVars, rcVars, reposList, rebuildVars, isBare, bpc, bErr, outerErr, bSpawnI,
                   doneLog, pack, helptagsCalls, buildInfoWritten>>

\* installRepos, lines 104-123: a git repository is opened to see whether it
\* is bare; any other type goes straight to the link.
InstallStart(w) ==
    /\ installPc[w].at = "start"
    /\ IF reposList[w].Type = GitType
       THEN \E o \in {"openFailed", "configFailed", "opened"} :
               IF o = "openFailed" \/ o = "configFailed"
               THEN /\ installPc' = [installPc EXCEPT ![w].at = "done"]
                    /\ SendDone(w, o)
               ELSE /\ installPc' = [installPc EXCEPT ![w].at =
                                        IF isBare[w] THEN "bare" ELSE "symlink"]
                    /\ UNCHANGED <<done, doneSent>>
       ELSE /\ installPc' = [installPc EXCEPT ![w].at = "symlink"]
            /\ UNCHANGED <<done, doneSent>>
    /\ UNCHANGED <<encVars, rcVars, reposList, rebuildVars, isBare, bpc, bErr, outerErr, bSpawnI,
                   doneLog, pack, helptagsCalls, buildInfoWritten>>

\* installRepos, lines 124-134: call updateBareGitRepos in this goroutine,
\* then receive its result from updateDone.
InstallBare(w) ==
    /\ installPc[w].at = "bare"
    /\ \E e \in {Nil, "failed to update bare repository"} :
          LET call == updateBareGitRepos(w, e)
          IN /\ pack' = IF e = Nil THEN pack \cup {[dst |-> w, by |-> "copy"]} ELSE pack
             /\ IF ~call.returns
                THEN /\ installPc' = [installPc EXCEPT ![w].at = "blockedSend"]
                     /\ UNCHANGED <<done, doneSent>>
                ELSE /\ installPc' = [installPc EXCEPT ![w].at = "done"]
                     /\ SendDone(w, call.result.err)
    /\ UNCHANGED <<encVars, rcVars, reposList, rebuildVars, isBare, bpc, bErr, outerErr, bSpawnI,
                   doneLog, helptagsCalls, buildInfoWritten>>

\* installRepos, lines 136-141: builder.symlink(src, dst).
InstallSymlink(w) ==
    /\ installPc[w].at = "symlink"
    /\ \E ok \in BOOLEAN :
          IF ok THEN /\ pack' = pack \cup {[dst |-> w, by |-> "link"]}
                     /\ installPc' = [installPc EXCEPT ![w].at = "helptags"]
                     /\ UNCHANGED <<done, doneSent>>
          ELSE /\ installPc' = [installPc EXCEPT ![w].at = "done"]
               /\ SendDone(w, "symlink failed")
               /\ UNCHANGED pack
    /\ UNCHANGED <<encVars, rcVars, reposList, rebuildVars, isBare, bpc, bErr, outerErr, bSpawnI,
                   doneLog, helptagsCalls, buildInfoWritten>>

\* installRepos, lines 142-148: builder.helptags, then the success result.
InstallHelptags(w) ==
    /\ installPc[w].at = "helptags"
    /\ helptagsCalls' = [helptagsCalls EXCEPT ![w] = @ + 1]
    /\ installPc' = [installPc EXCEPT ![w].at = "done"]
    /\ \E ok \in BOOLEAN : SendDone(w, IF ok THEN Nil ELSE "helptags failed")
    /\ UNCHANGED <<encVars, rcVars, reposList, rebuildVars, isBare, bpc, bErr, outerErr, bSpawnI,
                   doneLog, pack, buildInfoWritten>>

LinkNext ==
    \/ BuildPrepare \/ BuildSpawn \/ BuildWait \/ BuildPlugconf \/ BuildWriteInfo
    \/ \E w \in DOMAIN installPc : InstallStart(w)
    \/ \E w \in DOMAIN installPc : InstallBare(w)
    \/ \E w \in DOMAIN installPc : InstallSymlink(w)
    \/ \E w \in DOMAIN installPc : InstallHelptags(w)

----------------------------------------------------------------------------
(* Spec: one of the two commands is run. *)

Init == RebuildInit \/ LinkInit

Next == RebuildNext \/ LinkNext

Spec == Init /\ [][Next]_vars

----------------------------------------------------------------------------
(* Claims about the two orchestrators. *)

AllNil(log) == \A k \in 1..Len(log) : log[k].err = Nil
SomeErr(log) == \E k \in 1..Len(log) : log[k].err # Nil
LastErr(log) == Len(log) >= 1 /\ log[Len(log)].err # Nil

\* doRebuild returned from its receive loop or after it; Build likewise.
RebuildReturnedPastSpawn == pc = "returned" /\ spawnI > N
BuildReturnedPastSpawn == bpc = "returned" /\ bSpawnI > N

\* C1 (as claimed): an orchestrator that has started its workers returns only
\* after exactly N receives, however many of the results carry errors.
C1_DrainsAllBeforeReturn ==
    /\ RebuildReturnedPastSpawn => Len(copyLog) = N
    /\ BuildReturnedPastSpawn => Len(doneLog) = N

\* C1 (amended): an orchestrator receives at most N results and only the last
\* one received can carry an error; it leaves its receive loop normally only
\* after exactly N receives, none with an error; it returns from inside the
\* loop on the first result that carries an error, so a return after fewer
\* than N receives is one whose last received result carries an error.
C1_DrainsUntilFirstError ==
    /\ Len(copyLog) <= N /\ Len(doneLog) <= N
    /\ \A k \in 1..(Len(copyLog) - 1) : copyLog[k].err = Nil
    /\ \A k \in 1..(Len(doneLog) - 1) : doneLog[k].err = Nil
    /\ (pc = "returned" /\ retErr \in {Nil, "failed to remove start dir"})
          => (Len(copyLog) = N /\ AllNil(copyLog))
    /\ (pc = "returned" /\ retErr = "failed to copy repository") => LastErr(copyLog)
    /\ (RebuildReturnedPastSpawn /\ Len(copyLog) < N) => LastErr(copyLog)
    /\ (bpc = "writeBuildInfo" \/ buildInfoWritten
          \/ (bpc = "returned" /\ bErr \in {"plugconf failed", "failed to write build-info"}))
          => (Len(doneLog) = N /\ AllNil(doneLog))
    /\ (BuildReturnedPastSpawn /\ Len(doneLog) < N) => LastErr(doneLog)

\* doRebuild has returned after one receive out of two.
C1_Witness ==
    /\ pc = "returned" /\ N = 2
    /\ Len(copyLog) = 1 /\ copyLog[1].err # Nil
    /\ \E w \in 1..N : copySent[w] = <<>>

\* C2: when a received result carries an error, the orchestrator returns a
\* non-nil error.
C2_AnyErrorFailsBuild ==
    /\ (pc = "returned" /\ SomeErr(copyLog)) => retErr # Nil
    /\ (bpc = "returned" /\ SomeErr(doneLog)) => bErr # Nil

\* The steps of worker w.
CopyWorkerStep(w) == GitOpen(w) \/ GitWalk(w) \/ GitDone(w) \/ CopyStatic(w)
InstallWorkerStep(w) ==
    InstallStart(w) \/ InstallBare(w) \/ InstallSymlink(w) \/ InstallHelptags(w)

\* C3: every spawned worker sends exactly one result on every path: never two,
\* and a spawned worker with no step left to take has sent one.
C3_EveryWorkerSendsOneResult ==
    /\ \A w \in DOMAIN copyPc :
          /\ Len(copySent[w]) <= 1
          /\ (copyPc[w].at # "idle" /\ ~ENABLED CopyWorkerStep(w)) => Len(copySent[w]) = 1
    /\ \A w \in DOMAIN installPc :
          /\ Len(doneSent[w]) <= 1
          /\ (installPc[w].at # "idle" /\ ~ENABLED InstallWorkerStep(w))
                => Len(doneSent[w]) = 1

\* Some managed startup file existed without the marker when doRebuild began.
UserFileAtEntry ==
    \E f \in {Vimrc, Gvimrc} : fs0.fs[f].exists /\ ~StartsWithMarker(fs0.fs[f])

\* C5: if an existing vimrc or gvimrc does not begin with the marker line,
\* doRebuild returns an error and has changed nothing: no startup file, not
\* the start directory, no retired directory, and no worker or deletion runs.
C5_UserFileBlocksBuildBeforeMutation ==
    (pc # "none" /\ UserFileAtEntry)
    => /\ pc \in {"begin", "exited", "start", "returned"}
       /\ pc = "returned" => retErr # Nil
       /\ fs = fs0.fs /\ startDir = fs0.startDir /\ oldDirs = fs0.oldDirs
       /\ removePc = "none" /\ ~removeDone.made
       /\ \A w \in DOMAIN copyPc : copyPc[w].at = "idle" /\ copySent[w] = <<>>

\* The vimrc is managed, the gvimrc is the user's, and doRebuild has returned.
C5_Witness ==
    /\ pc = "returned" /\ retErr = "already exists user vimrc or gvimrc"
    /\ StartsWithMarker(fs0.fs[Vimrc])
    /\ fs0.fs[Gvimrc].exists /\ ~StartsWithMarker(fs0.fs[Gvimrc])
    /\ fs0.startDir.exists /\ N >= 1

\* C9: build-info is written only when all N results were received without
\* an error; when some worker has sent an error it is never written.
C9_BuildInfoOnlyOnFullSuccess ==
    (bpc = "writeBuildInfo" \/ buildInfoWritten)
    => /\ Len(doneLog) = N /\ AllNil(doneLog)
       /\ \A w \in DOMAIN doneSent : doneSent[w] = <<Nil>>

C9_Witness ==
    /\ buildInfoWritten /\ bpc = "returned" /\ bErr = Nil
    /\ N >= 2 /\ Len(doneLog) = N

\* C10: when a full rebuild returns success, the live start directory holds
\* exactly one entry per repository of the list and no retired directory is
\* left on disk.
C10_SuccessLeavesOneEntryPerRepo ==
    (pc = "returned" /\ retErr = Nil)
    => /\ startDir.exists
       /\ startDir.entries = {EntryOf(w) : w \in 1..N}
       /\ Cardinality(startDir.entries) = N
       /\ oldDirs = {}

\* The git repositories of the list.
GitWorkers == {w \in DOMAIN copyPc : reposList[w].Type = GitType}

\* C11: copyGitRepos sends a success result only if every file of the pinned
\* commit's tree was written to the destination; a file that could not be
\* written (or whose directory could not be made) makes the result an error.
C11_GitSuccessMeansEveryFileWritten ==
    \A w \in GitWorkers :
        copySent[w] = <<Nil>> => copyPc[w].wrote = reposList[w].files

RenameFailed == pc = "returned" /\ retErr = "rename failed"

\* Nothing below the start directory was touched and nothing was started.
TreeUntouched ==
    /\ startDir = fs0.startDir /\ oldDirs = fs0.oldDirs
    /\ removePc = "none" /\ ~removeDone.made
    /\ copyDone = <<>>
    /\ \A w \in DOMAIN copyPc : copyPc[w].at = "idle" /\ copySent[w] = <<>>

\* C12 (as claimed): when the rename of the start directory fails, doRebuild
\* returns with the old start directory untouched, no startup file written
\* or removed, and no worker started.
C12_RenameFailureBeforeAnyMutation ==
    RenameFailed => (TreeUntouched /\ fs = fs0.fs)

\* C12 (amended): when the rename of the start directory fails, doRebuild
\* returns that error with the old start directory untouched (not renamed,
\* not recreated, no deletion started) and no worker started; the startup
\* files have already been installed by then.
C12_RenameFailureLeavesTreeUntouched ==
    RenameFailed => TreeUntouched

\* The rename failed after the vimrc was written and the gvimrc removed.
C12_Witness ==
    /\ RenameFailed /\ N >= 1
    /\ fs0.startDir.exists /\ startDir = fs0.startDir
    /\ ~fs0.fs[Vimrc].exists /\ fs[Vimrc].exists
    /\ fs0.fs[Gvimrc].exists /\ ~fs[Gvimrc].exists

\* The background deletion of this invocation has failed.
DeletionFailed ==
    \/ removeErr # Nil
    \/ \E k \in 1..Len(removeDone.buf) : removeDone.buf[k] # Nil

\* C13: when the background deletion has failed, doRebuild returns a non-nil
\* error; when all N copies succeeded that error is the deletion's.
C13_DeletionFailureFailsRebuild ==
    /\ (pc = "returned" /\ DeletionFailed) => retErr # Nil
    /\ (pc = "returned" /\ removeErr # Nil /\ Len(copyLog) = N /\ AllNil(copyLog))
          => retErr = "failed to remove start dir"

\* Both repositories were copied into the fresh directory, the deletion failed.
C13_Witness ==
    /\ pc = "returned" /\ retErr = "failed to remove start dir"
    /\ N >= 2 /\ Len(copyLog) = N /\ AllNil(copyLog)
    /\ startDir.exists /\ startDir.gen = build
    /\ \A w \in 1..N : EntryOf(w) \in startDir.entries
    /\ build \in oldDirs

InvalidType(w) == reposList[w].Type \notin {GitType, StaticType}

\* C14: in either build mode a repository whose type is neither git nor static
\* gets the "invalid repository type" error as its one result; nothing is
\* copied or linked for it and no worker works on it.
C14_InvalidTypeIsAnError ==
    /\ \A w \in DOMAIN copyPc :
          InvalidType(w) =>
             /\ copyPc[w].at = "idle"
             /\ copySent[w] \in {<<>>, <<"invalid repository type">>}
             /\ (pc = "spawn" /\ spawnI > w) => copySent[w] = <<"invalid repository type">>
    /\ \A w \in DOMAIN installPc :
          InvalidType(w) =>
             /\ \A e \in pack : e.dst # w
             /\ helptagsCalls[w] = 0
             /\ doneSent[w] \in {<<>>, <<"invalid repository type">>}

Linked(w) == [dst |-> w, by |-> "link"] \in pack
Extracted(w) == [dst |-> w, by |-> "copy"] \in pack

\* C15: in link-build a git repository with a working-copy source is linked
\* and then gets one help-tags call, made only after the link was created,
\* and nothing is extracted; one with a bare source gets the snapshot
\* extracted and no link.  Never both for one repository.
C15_StrategyFollowsSource ==
    \A w \in DOMAIN installPc :
        reposList[w].Type = GitType =>
           /\ ~(Linked(w) /\ Extracted(w))
           /\ isBare[w] => (~Linked(w) /\ helptagsCalls[w] = 0)
           /\ ~isBare[w] =>
                 /\ ~Extracted(w)
                 /\ helptagsCalls[w] <= 1
                 /\ helptagsCalls[w] = 1 => Linked(w)
                 /\ doneSent[w] = <<Nil>> => (Linked(w) /\ helptagsCalls[w] = 1)

\* A working copy was linked and its help tags made, next to another repository.
C15_Witness ==
    /\ N >= 2
    /\ \E w \in DOMAIN installPc :
          /\ reposList[w].Type = GitType /\ ~isBare[w]
          /\ Linked(w) /\ helptagsCalls[w] = 1 /\ doneSent[w] = <<Nil>>

\* The live start directory is the one this invocation made.
FreshStartDir == startDir.exists /\ startDir.gen = build /\ Stale \notin startDir.entries

\* C16: within one invocation of doRebuild, workers run only once the empty
\* start directory has been made anew; only that fresh directory is written
\* to, and what is written into it stays: no step of the invocation (the
\* background deletion least of all) retires or removes it.
C16_WritesLandInFreshDirectory ==
    [][build' = build =>
          /\ (\E w \in DOMAIN copyPc : copyPc[w].at # "idle") => FreshStartDir
          /\ (startDir.exists /\ startDir'.exists /\ startDir'.entries # startDir.entries)
                => (startDir.gen = build /\ startDir'.gen = build)
          /\ (startDir.exists /\ startDir.gen = build)
                => /\ startDir'.exists /\ startDir'.gen = build
                   /\ startDir.entries \subseteq startDir'.entries]_vars

\* A worker has written into the fresh directory while the old one is being deleted.
C16_Witness ==
    /\ FreshStartDir /\ startDir.entries # {}
    /\ fs0.startDir.exists /\ removePc = "running" /\ build \in oldDirs
    /\ \E w \in DOMAIN copyPc : copyPc[w].at = "walk" /\ copyPc[w].wrote = 1

\* Line 117 has taken the deletion's outcome off its channel.
JoinedDeletion == removeDone.made /\ removePc = "done" /\ removeDone.buf = <<>>

\* C17 as stated: the deletion's outcome is received only after all N
\* repository results have been received.
C17_JoinAfterAllResults == JoinedDeletion => Len(copyLog) = N

\* C17: doRebuild receives the deletion's outcome after every worker has been
\* started and before it receives any repository result; a deletion failure
\* is reported only at the very end, after N results without error.
C17_JoinBeforeResultsReportAtEnd ==
    /\ (removeDone.made /\ (pc = "waitCopy" \/ Len(copyLog) > 0))
          => (JoinedDeletion /\ spawnI > N)
    /\ retErr = "failed to remove start dir"
          => (pc = "returned" /\ removeErr # Nil /\ Len(copyLog) = N /\ AllNil(copyLog))

\* The failed deletion has been joined and no repository result received yet.
C17_Witness ==
    /\ pc = "waitCopy" /\ JoinedDeletion /\ removeErr # Nil
    /\ N = 2 /\ copyLog = <<>>

\* C18: there is no cancellation and no blocked sender: whatever the
\* orchestrator has decided or returned, every started worker that has not
\* finished, and the background deletion while it runs, has a step it can
\* take, its send on the result channel included.
C18_StartedWorkersRunToCompletion ==
    /\ \A w \in DOMAIN copyPc :
          copyPc[w].at \notin {"idle", "done"} => ENABLED CopyWorkerStep(w)
    /\ removePc = "running" => ENABLED RemoveAllOld
    /\ \A w \in DOMAIN installPc :
          installPc[w].at \notin {"idle", "done"} => ENABLED InstallWorkerStep(w)

\* Worker w of the rebuild is at a step that writes below startDir/dst.
Writing(w) ==
    \/ copyPc[w].at = "walk" /\ copyPc[w].k < reposList[w].files
    \/ copyPc[w].at = "copy"

\* C19: the repository list having pairwise distinct paths, no two workers
\* of the full rebuild are ever writing into the same destination directory.
C19_WorkersWriteDisjointSubtrees ==
    \A v, w \in DOMAIN copyPc :
        (v # w /\ Writing(v) /\ Writing(w)) => EntryOf(v) # EntryOf(w)

\* Some goroutine of this invocation still has filesystem work ahead of it.
MutationsPending ==
    \/ removePc = "running"
    \/ \E w \in DOMAIN copyPc : copyPc[w].at \notin {"idle", "done"}

\* C20: the lock brackets the whole build: every step that changes a startup
\* file, the start directory or a retired directory is taken while the lock
\* is held; the lock is released only when no goroutine of the invocation
\* has work left; and when taking the lock fails doRebuild is not run.
C20_LockBracketsAllMutations ==
    [][/\ (fs' # fs \/ startDir' # startDir \/ oldDirs' # oldDirs) => lock
       /\ (lock /\ ~lock') => ~MutationsPending
       /\ pc' = "exited" => UNCHANGED <<fs, startDir, oldDirs, spawnI, removePc>>]_vars

====
